---- MODULE Spec2Model ----
(***************************************************************************)
(* Model of supabase/functions/weather-data/index.ts: the two HTTP         *)
(* handlers (5-day forecast, current weather) in front of the two cache    *)
(* tables forecast_cache and weather_cache and of the OpenWeatherMap API.  *)
(* The file holds the sources of two edge functions one after the other    *)
(* (lines 1-195 and 196-358), each with its own import, corsHeaders and    *)
(* Deno.serve.  Loaded as it is, the file is a SyntaxError (createClient   *)
(* and corsHeaders are declared twice), Deno.serve is never called and no  *)
(* request reaches a handler; each half loaded on its own registers its    *)
(* handler.  handler is the handler a deployment has registered, if any.   *)
(*                                                                         *)
(* Representation of values.                                               *)
(*  - Time is in milliseconds, as Date.now(), counted from ModelEpochDay   *)
(*    00:00:00 UTC instead of 1970-01-01 (TLC integers are 32 bits wide).  *)
(*    Calendar conversions add ModelEpochDay back, so dates are real       *)
(*    Gregorian dates.  An ISO timestamp is represented by its instant.    *)
(*  - A calendar date "YYYY-MM-DD" is the tuple <<y, m, d>>.               *)
(*  - Forecast temperatures are integers in units of 1/40 degree; the      *)
(*    upstream readings modelled are multiples of 1/8 degree (5 units),    *)
(*    whose sums are exact in IEEE doubles, and a value with one decimal   *)
(*    is a multiple of 4 units.  Their mean need not be a double: ToFixed1 *)
(*    rounds the double nearest to it, as toFixed(1) does.                 *)
(*  - A nullable field is <<v>> when present and << >> when null.          *)
(*  - An error message is a tuple: <<"Weather API error: ", 404>>.         *)
(***************************************************************************)
EXTENDS Integers, Sequences, FiniteSets, TLC

VARIABLES handler, now, ticks, apiKey, tz, weather_cache, forecast_cache,
          insertedAt, inv, aggIn, aggOut, wxIn, wxOut

vars == <<handler, now, ticks, apiKey, tz, weather_cache, forecast_cache,
          insertedAt, inv, aggIn, aggOut, wxIn, wxOut>>

\* What an invocation leaves alone: the deployment and its environment.
env == <<handler, apiKey, tz, aggIn, aggOut, wxIn, wxOut>>

(***************************************************************************)
(* Bounds of the model.                                                    *)
(***************************************************************************)
NInv == 2
MaxTicks == 2
MaxReadings == 3
TieReadings == 5

(***************************************************************************)
(* Program constants.                                                      *)
(***************************************************************************)
MsPerSecond == 1000
MsPerHour == 60 * 60 * 1000
MsPerDay == 24 * MsPerHour
SixHours == 6 * 60 * 60 * 1000
ThirtyMinutes == 30 * 60 * 1000
MaxDays == 5
StatusOk == 200
StatusError == 500
DefaultLocation == "Santiago"

\* 2024-01-01 is day 19723 since 1970-01-01; the model's clock starts counting
\* on 2024-01-10.
ModelEpochDay == 19723 + 9

\* Number values that are not finite (Math.max() of nothing, 0 / 0).
Infinity == 2 ^ 30
NaN == 2 ^ 30 + 1

Null == << >>
\* undefined where a string is expected: an array read outside its indices.
Undefined == "undefined"
Some(v) == <<v>>

corsHeaders ==
    ("Access-Control-Allow-Origin" :> "*") @@
    ("Access-Control-Allow-Headers" :>
        "authorization, x-client-info, apikey, content-type")

jsonHeaders == corsHeaders @@ ("Content-Type" :> "application/json")

(***************************************************************************)
(* Dates.  CivilFromDays is the proleptic Gregorian calendar that          *)
(* Date.prototype.toISOString and getDate decompose an instant with.       *)
(***************************************************************************)
CivilFromDays(days) ==
    LET z == days + 719468
        era == z \div 146097
        doe == z - era * 146097
        yoe == (doe - doe \div 1460 + doe \div 36524 - doe \div 146096) \div 365
        doy == doe - (365 * yoe + yoe \div 4 - yoe \div 100)
        mp == (5 * doy + 2) \div 153
        d == doy - (153 * mp + 2) \div 5 + 1
        m == IF mp < 10 THEN mp + 3 ELSE mp - 9
        y == yoe + era * 400 + (IF m <= 2 THEN 1 ELSE 0)
    IN  <<y, m, d>>

\* new Date(t).toISOString().split('T')[0]: the UTC calendar date.
IsoDate(t) == CivilFromDays(ModelEpochDay + (t \div MsPerDay))

\* new Date(t).getDate(): the day of the month in the runtime's local time,
\* zone being the local offset from UTC in milliseconds.
GetDate(t, zone) == CivilFromDays(ModelEpochDay + ((t + zone) \div MsPerDay))[3]

(***************************************************************************)
(* Number formatting.                                                      *)
(***************************************************************************)
RECURSIVE Log2Floor(_, _)
\* The exponent of the double nearest to num / den (num, den > 0): the p with
\* 2^p <= num / den < 2^(p + 1).
Log2Floor(num, den) ==
    IF num >= 2 * den THEN 1 + Log2Floor(num, 2 * den)
    ELSE IF num < den THEN Log2Floor(2 * num, den) - 1
    ELSE 0

\* 2^k modulo 5.
Pow2Mod5(k) == <<1, 2, 4, 3>>[(k % 4) + 1]

\* Whether the double nearest to m / 20 (m > 0, not a multiple of 5, so that
\* m / 20 is no double) is above it.  The double is M * 2^(p - 52) with M the
\* integer nearest to m * 2^(50 - p) / 5, and it is above m / 20 when the
\* remainder of that division is 3 or 4.
DoubleAbove(m) ==
    ((m % 5) * Pow2Mod5(50 - Log2Floor(m, 20))) % 5 >= 3

\* a % b of JavaScript (b > 0): the remainder has the sign of a.
Remainder(a, b) == IF a < 0 THEN -((-a) % b) ELSE a % b

\* Math.round(num / den): a tie goes up.
MathRound(num, den) == (2 * num + den) \div (2 * den)

\* A mean cut to one decimal instead of rounded.
ToFixed1_floor(sum, len) == 4 * (sum \div (4 * len))

\* parseFloat((sum / len).toFixed(1)) for sum in 1/40 degree: the mean in
\* tenths of a degree, given back in 1/40 degree.  The sum of the readings is
\* exact and sum / len is the double nearest to the mean; toFixed takes the
\* tenth nearest to that double, and of two equally near the one away from
\* zero.  A mean q.q5 that is a double (q.25, q.75) goes away from zero; one
\* that is not goes the way its double lies.
ToFixed1(sum, len) ==
    LET a == IF sum < 0 THEN -sum ELSE sum
        q == a \div (4 * len)
        r == a % (4 * len)
        m == a \div (2 * len)
        n == IF 2 * r < 4 * len THEN q
             ELSE IF 2 * r > 4 * len THEN q + 1
             ELSE IF m % 5 = 0 \/ DoubleAbove(m) THEN q + 1
             ELSE q
    IN  IF sum < 0 THEN -(4 * n) ELSE 4 * n

RECURSIVE SeqSum(_)
SeqSum(s) == IF s = << >> THEN 0 ELSE s[1] + SeqSum(Tail(s))

\* Math.max(...s) and Math.min(...s).
MathMax(s) ==
    IF s = << >> THEN -Infinity
    ELSE CHOOSE x \in {s[k] : k \in 1..Len(s)} : \A k \in 1..Len(s) : s[k] <= x

MathMin(s) ==
    IF s = << >> THEN Infinity
    ELSE CHOOSE x \in {s[k] : k \in 1..Len(s)} : \A k \in 1..Len(s) : s[k] >= x

(***************************************************************************)
(* Forecast aggregation (forecast handler, steps 3 and 4).                 *)
(* An upstream item is [dt, temp, description, speed]: dt in seconds,      *)
(* temp = item.main.temp in 1/40 degree, description =                     *)
(* item.weather[0].description, speed = item.wind.speed in units of 1.25   *)
(* m/s (4.5 km/h), on which the sums of the speeds in km/h are exact in    *)
(* doubles.                                                                *)
(***************************************************************************)
DateKey(item) == IsoDate(item.dt * MsPerSecond)

\* The unit of item.wind.speed, in 1/100 m/s.
SpeedUnit == 125

\* parseFloat((item.wind.speed * 3.6).toFixed(1)), in 1/10 km/h.  A speed of u
\* units is 4.5 * u km/h, which has one decimal and is a double.
WindSpeedKmh(item) == (36 * SpeedUnit * item.speed) \div 100

\* weatherJson.list.filter(item => new Date(item.dt * 1000).getDate() !== now.getDate())
KeepItem(item, nowT, zone) == GetDate(item.dt * MsPerSecond, zone) # GetDate(nowT, zone)

FilterList(list, nowT, zone) == SelectSeq(list, LAMBDA item : KeepItem(item, nowT, zone))

HasKey(map, dateKey) == \E j \in 1..Len(map) : map[j].key = dateKey

\* One round of list.forEach: the Map keeps its keys in insertion order.
AddItem(map, item) ==
    LET dateKey == DateKey(item)
        withKey == IF HasKey(map, dateKey) THEN map
                   ELSE Append(map, [key |-> dateKey, temps |-> << >>,
                                     conditions |-> << >>, windSpeeds |-> << >>])
    IN  [j \in 1..Len(withKey) |->
            IF withKey[j].key = dateKey
            THEN [key |-> dateKey,
                  temps |-> Append(withKey[j].temps, item.temp),
                  conditions |-> Append(withKey[j].conditions, item.description),
                  windSpeeds |-> Append(withKey[j].windSpeeds, WindSpeedKmh(item))]
            ELSE withKey[j]]

RECURSIVE DailyForecasts(_)
DailyForecasts(list) ==
    IF list = << >> THEN << >>
    ELSE AddItem(DailyForecasts(SubSeq(list, 1, Len(list) - 1)), list[Len(list)])

\* Array.prototype.slice(0, n)
Slice(s, n) == SubSeq(s, 1, IF Len(s) < n THEN Len(s) ELSE n)

\* The middle index rounded down from the last index instead of the length.
MiddleIndex_lower(n) == (n - 1) \div 2

\* data.conditions[Math.floor(data.conditions.length / 2)]
MiddleIndex(n) == n \div 2

TemperatureAvg(temps) ==
    IF temps = << >> THEN NaN ELSE ToFixed1(SeqSum(temps), Len(temps))

DayForecast(entry) ==
    [date |-> entry.key,
     temperature_max |-> MathMax(entry.temps),
     temperature_min |-> MathMin(entry.temps),
     temperature_avg |-> TemperatureAvg(entry.temps),
     conditions |-> IF entry.conditions = << >> THEN Undefined
                    ELSE entry.conditions[MiddleIndex(Len(entry.conditions)) + 1],
     wind_speed |-> IF entry.windSpeeds = << >> THEN NaN
                    ELSE MathRound(SeqSum(entry.windSpeeds), 10 * Len(entry.windSpeeds))]

Forecast(list, nowT, zone) ==
    LET days == Slice(DailyForecasts(FilterList(list, nowT, zone)), MaxDays)
    IN  [k \in 1..Len(days) |-> DayForecast(days[k])]

(***************************************************************************)
(* Current weather: normalisation of the upstream body and mock data.      *)
(* Numbers of a WeatherData are in thousandths of their unit.  An upstream *)
(* body is [temp, humidity, speed, deg, description], each field <<v>> or  *)
(* << >> when main, wind, weather[0] or the field itself is missing.       *)
(***************************************************************************)
directions == <<"N", "NE", "E", "SE", "S", "SW", "W", "NW">>

descriptions == <<"Despejado", "Parcialmente nublado", "Nublado", "Viento">>

\* Math.round(deg / 45) % 8, then directions[index]
degToCardinal(deg) ==
    LET index == Remainder(MathRound(deg, 45), 8)
    IN  IF index < 0 THEN Undefined ELSE directions[index + 1]

\* x || null for a number: undefined, null and 0 give null.
NumberOrNull(x) == IF x = Null \/ x[1] = 0 THEN Null ELSE x

\* x || null for a string: undefined, null and "" give null.
StringOrNull(x) == IF x = Null \/ x[1] = "" THEN Null ELSE x

\* weatherJson.wind?.deg ? degToCardinal(weatherJson.wind.deg) : null
WindDirection(deg) == IF deg = Null \/ deg[1] = 0 THEN Null ELSE Some(degToCardinal(deg[1]))

WeatherData(location, weatherJson, fetchedAt) ==
    [location |-> location,
     temperature |-> NumberOrNull(weatherJson.temp),
     humidity |-> NumberOrNull(weatherJson.humidity),
     wind_speed |-> NumberOrNull(weatherJson.speed),
     wind_direction |-> WindDirection(weatherJson.deg),
     weather_description |-> StringOrNull(weatherJson.description),
     fetched_at |-> fetchedAt]

\* Math.random() is r / RandomScale for the r drawn; base + Math.random() * span
\* in thousandths.
RandomScale == 10 ^ 3
\* The draws of the five Math.random() calls of one mock payload.
RandomDraws == { <<0, 0, 0, 0, 0>>, <<999, 999, 999, 999, 999>>, <<500, 0, 999, 500, 250>> }

\* A mock range one unit too wide.
Scaled_wide(base, span, r) == base * RandomScale + r * (span + 1)

Scaled(base, span, r) == base * RandomScale + r * span

\* Math.floor(Math.random() * n)
RandomIndex(r, n) == (r * n) \div RandomScale

MockData(location, r, fetchedAt) ==
    [location |-> location,
     temperature |-> Some(Scaled(18, 10, r[1])),
     humidity |-> Some(Scaled(50, 30, r[2])),
     wind_speed |-> Some(Scaled(5, 15, r[3])),
     wind_direction |-> Some(directions[RandomIndex(r[4], 8) + 1]),
     weather_description |-> Some(descriptions[RandomIndex(r[5], 4) + 1]),
     fetched_at |-> fetchedAt]

ForecastData(location, forecast, fetchedAt) ==
    [location |-> location, forecast |-> forecast, fetched_at |-> fetchedAt]

(***************************************************************************)
(* The environment: upstream answers, time zones, requests.                *)
(***************************************************************************)
\* Seconds from the model's epoch to hour h of day d.
At(d, h) == (d * 24 + h) * 3600

Sample(d, h, temp, description, speed) ==
    [dt |-> At(d, h), temp |-> temp, description |-> description, speed |-> speed]

\* The runtime's local offset from UTC: UTC-3, UTC, UTC+2.
Zones == {-3 * MsPerHour, 0, 2 * MsPerHour}

\* 3-hour samples the provider can return: day 1 is the day the clock starts
\* in, days 2 .. 1 + PoolDays follow it.
PoolDays == 6

Pool ==
    << Sample(1, 3, 405, "lluvia ligera", 2),
       Sample(1, 21, 480, "nubes", 3),
       Sample(2, 0, 405, "cielo claro", 8),
       Sample(2, 12, 610, "nubes dispersas", 1),
       Sample(2, 21, -5, "niebla", 0) >> \o
    [k \in 1..(PoolDays - 1) |-> Sample(k + 2, 12, 600 + 45 * k, "muy nuboso", k)]

\* The lists the forecast endpoint answers with in the handlers' model.
ForecastLists ==
    { <<Pool[1], Pool[4], Pool[3], Pool[6]>> }

\* An item whose weather array is empty: it has no weather[0].
BareItem == [dt |-> At(2, 12), temp |-> 610, speed |-> 1]

\* The bodies json() gives for the forecast endpoint: with a list, with a list
\* that holds an item without weather[0], and without a list (an error body
\* sent with status 200).
ForecastBodies ==
    {[list |-> Some(l)] : l \in ForecastLists \cup {<<Pool[1], BareItem>>}} \cup
    {[list |-> Null]}

WeatherBodies ==
    { [temp |-> Some(15500), humidity |-> Some(65000), speed |-> Some(3600),
       deg |-> Some(200), description |-> Some("nubes")],
      [temp |-> Some(0), humidity |-> Null, speed |-> Some(0),
       deg |-> Some(0), description |-> Null] }

UpstreamStatuses == {200, 404}

\* Response.ok
IsOk(status) == status \in 200..299

\* What a function is deployed from: the file as it is, or one of the two
\* sources it holds (lines 1-195, lines 196-358).
Modules == {"index.ts", "forecast", "weather"}

\* The identifiers a module declares at its top level with import and const,
\* in the order of the source (lines 1, 4, 196, 198).
Declared(module) ==
    IF module = "index.ts"
    THEN <<"createClient", "corsHeaders", "createClient", "corsHeaders">>
    ELSE <<"createClient", "corsHeaders">>

\* A module that declares an identifier twice is a SyntaxError: none of its
\* code runs.
Loads(module) ==
    \A a, b \in 1..Len(Declared(module)) :
        Declared(module)[a] = Declared(module)[b] => a = b

NoHandler == "none"

\* The handler Deno.serve has been given once the module is loaded.
Handler(module) == IF Loads(module) THEN module ELSE NoHandler

Handlers == {Handler(module) : module \in Modules}
Methods == {"GET", "OPTIONS"}
\* url.searchParams.get('location'): absent, empty, or a city.
LocationParams == {Null, Some(""), Some("Valparaiso")}

Invs == 1..NInv

\* new Date() when the model's clock starts: 2024-01-11T02:00:00Z.
StartTime == 26 * MsPerHour
TickSteps == {1, ThirtyMinutes, SixHours}

(***************************************************************************)
(* Responses.                                                              *)
(***************************************************************************)
\* A preflight answer without the CORS headers.
PreflightResponse_bare == [status |-> StatusOk, headers |-> << >>, body |-> Null]

\* new Response(null, { headers: corsHeaders })
PreflightResponse == [status |-> StatusOk, headers |-> corsHeaders, body |-> Null]

SuccessResponse(data, source, message) ==
    [status |-> StatusOk, headers |-> jsonHeaders,
     body |-> Some([data |-> data, source |-> source, message |-> message])]

\* A catch block that forgets the status.
ErrorResponse_200(errorMessage) ==
    [status |-> StatusOk, headers |-> jsonHeaders,
     body |-> Some([error |-> errorMessage, details |-> "Failed to fetch weather data"])]

\* The catch block.
ErrorResponse(errorMessage) ==
    [status |-> StatusError, headers |-> jsonHeaders,
     body |-> Some([error |-> errorMessage, details |-> "Failed to fetch weather data"])]

CacheMessage(fn) ==
    IF fn = "forecast" THEN "Data from cache (less than 6 hours old)"
    ELSE "Data from cache (less than 30 minutes old)"

ApiMessage(fn) ==
    IF fn = "forecast" THEN "Fresh 5-day forecast from OpenWeatherMap"
    ELSE "Fresh data from weather service"

MockMessage == "Mock data - Add OPENWEATHER_API_KEY secret for real weather data"

KeyMissingError == <<"OPENWEATHER_API_KEY is not set in environment secrets.">>
WeatherApiError(status) == <<"Weather API error: ", status>>
NetworkError == <<"error sending request">>
JsonError == <<"Unexpected end of JSON input">>
\* weatherJson.list.filter with no list, item.weather[0].description with no
\* weather[0].
ListError == <<"Cannot read properties of undefined (reading 'filter')">>
ItemError == <<"Cannot read properties of undefined (reading 'description')">>

(***************************************************************************)
(* The cache tables.  A table is the sequence of its rows in insertion     *)
(* order.  A forecast_cache row is [location, forecast_data, fetched_at];  *)
(* a weather_cache row is the WeatherData inserted.  insertedAt[k] is the  *)
(* time at which the store took row k of the table of the deployed         *)
(* function; the rows themselves do not hold it.                           *)
(***************************************************************************)
Table(fn) == IF fn = "forecast" THEN forecast_cache ELSE weather_cache

\* Date.now() - 6 * 60 * 60 * 1000 and Date.now() - 30 * 60 * 1000
Cutoff(fn, t) == IF fn = "forecast" THEN t - SixHours ELSE t - ThirtyMinutes

\* A query that takes .lte for .gte.
Matches_lte(row, location, cutoff) == row.location = location /\ row.fetched_at <= cutoff

\* A query that takes .gt for .gte.
Matches_gt(row, location, cutoff) == row.location = location /\ row.fetched_at > cutoff

\* .eq('location', location).gte('fetched_at', cutoff)
Matches(row, location, cutoff) == row.location = location /\ row.fetched_at >= cutoff

\* .order('fetched_at', { ascending: false }).limit(1): the rows one of which
\* the store returns.
Latest(table, location, cutoff) ==
    {k \in 1..Len(table) :
        /\ Matches(table[k], location, cutoff)
        /\ \A j \in 1..Len(table) :
              Matches(table[j], location, cutoff) => table[j].fetched_at <= table[k].fetched_at}

\* .select('forecast_data') and .select('*')
Select(fn, row) ==
    IF fn = "forecast" THEN [forecast_data |-> row.forecast_data] ELSE row

\* The data of a cache response: cachedData.forecast_data, or cachedData.
CachedPayload(fn, cachedData) ==
    IF fn = "forecast" THEN cachedData.forecast_data ELSE cachedData

\* The results .maybeSingle() can give: an error with no data, or the latest
\* matching row, or no row.
ReadResults(fn, location, cutoff) ==
    LET table == Table(fn)
        latest == Latest(table, location, cutoff)
    IN  {[data |-> Null, error |-> TRUE]} \cup
        (IF latest = {} THEN {[data |-> Null, error |-> FALSE]}
         ELSE {[data |-> Some(Select(fn, table[k])), error |-> FALSE] : k \in latest})

\* if (cachedData && !cacheError)
CacheHit(cachedData, cacheError) == cachedData # Null /\ ~cacheError

\* if (!OPENWEATHER_API_KEY)
KeyMissing(key) == key = Null \/ key = Some("")

(***************************************************************************)
(* One invocation of a handler.  pc is the await the invocation is         *)
(* suspended at: "read" (the cache query), "fetch" (the upstream call),    *)
(* "json" (the body of the upstream answer being read and parsed),         *)
(* "stamp" (the forecast handler between building forecastData and         *)
(* building the row to insert), "insert" (the cache insert), "done" (the   *)
(* Response has been returned).  calls lists the calls issued so far and   *)
(* snap is the number of rows the table held when the query was answered.  *)
(***************************************************************************)
Idle ==
    [pc |-> "idle", method |-> "", location |-> "", cutoff |-> 0,
     snap |-> 0, cachedData |-> Null, cacheError |-> FALSE, upstream |-> Null,
     data |-> Null, row |-> Null, source |-> "", insertError |-> FALSE,
     calls |-> << >>, response |-> Null]

Respond(rec, response) ==
    [rec EXCEPT !.pc = "done", !.response = Some(response),
                !.calls = Append(@, "respond")]

\* url.searchParams.get('location') || 'Santiago'
Location(param) == IF param = Null \/ param[1] = "" THEN DefaultLocation ELSE param[1]

\* From the request to the first await: the preflight answer, or the query sent.
AfterRequest(rec, fn, method, param, t) ==
    LET r0 == [rec EXCEPT !.method = method]
    IN  IF method = "OPTIONS" THEN Respond(r0, PreflightResponse)
        ELSE [r0 EXCEPT !.pc = "read", !.location = Location(param),
                        !.cutoff = Cutoff(fn, t), !.calls = Append(@, "read")]

\* From the answer of the insert to the Response, an insert error thrown.
AfterInsert_throw(rec, fn, error) ==
    IF error THEN Respond([rec EXCEPT !.insertError = error], ErrorResponse(<<"insert failed">>))
    ELSE Respond([rec EXCEPT !.insertError = error],
                 SuccessResponse(rec.data[1], rec.source,
                                 IF rec.source = "mock" THEN MockMessage ELSE ApiMessage(fn)))

\* A forecast handler that falls back to mock data as the other handler does.
ForecastKeyMissing_mock(rec) ==
    Respond(rec, SuccessResponse(ForecastData(rec.location, << >>, rec.cutoff),
                                 "mock", MockMessage))

\* The forecast handler with OPENWEATHER_API_KEY missing: throw, caught.
ForecastKeyMissing(rec) == Respond(rec, ErrorResponse(KeyMissingError))

\* A mock branch that does not await its insert before it answers.
WeatherKeyMissing_noawait(rec, r, t) ==
    LET mockData == MockData(rec.location, r, t)
    IN  Respond([rec EXCEPT !.data = Some(mockData), !.row = Some(mockData),
                            !.source = "mock", !.calls = Append(@, "insert")],
                SuccessResponse(mockData, "mock", MockMessage))

\* The current-weather handler with OPENWEATHER_API_KEY missing: mock data,
\* and its insert sent.
WeatherKeyMissing(rec, r, t) ==
    LET mockData == MockData(rec.location, r, t)
    IN  [rec EXCEPT !.pc = "insert", !.data = Some(mockData), !.row = Some(mockData),
                    !.source = "mock", !.calls = Append(@, "insert")]

\* A handler that throws the store error of the cache query.
AfterRead_throw(rec, fn, res, len, key, r, t) ==
    LET r0 == [rec EXCEPT !.cachedData = res.data, !.cacheError = res.error, !.snap = len]
    IN  IF res.error THEN Respond(r0, ErrorResponse(<<"store error">>))
        ELSE IF CacheHit(res.data, res.error)
        THEN Respond(r0, SuccessResponse(CachedPayload(fn, res.data[1]),
                                         "cache", CacheMessage(fn)))
        ELSE IF KeyMissing(key)
        THEN IF fn = "forecast" THEN Respond(r0, ErrorResponse(KeyMissingError))
             ELSE [r0 EXCEPT !.pc = "insert", !.data = Some(MockData(rec.location, r, t)),
                             !.row = Some(MockData(rec.location, r, t)),
                             !.source = "mock", !.calls = Append(@, "insert")]
        ELSE [r0 EXCEPT !.pc = "fetch", !.calls = Append(@, "fetch")]

\* From the answer of the cache query to the next await or to the Response.
AfterRead(rec, fn, res, len, key, r, t) ==
    LET r0 == [rec EXCEPT !.cachedData = res.data, !.cacheError = res.error, !.snap = len]
    IN  IF CacheHit(res.data, res.error)
        THEN Respond(r0, SuccessResponse(CachedPayload(fn, res.data[1]),
                                         "cache", CacheMessage(fn)))
        ELSE IF KeyMissing(key)
        THEN IF fn = "forecast" THEN ForecastKeyMissing(r0)
             ELSE WeatherKeyMissing(r0, r, t)
        ELSE [r0 EXCEPT !.pc = "fetch", !.calls = Append(@, "fetch")]

\* What await fetch(...) can end in: fetch() rejecting, or a response with a
\* status.
Outcomes ==
    {[kind |-> "network", status |-> 0]} \cup
    {[kind |-> "response", status |-> status] : status \in UpstreamStatuses}

\* What await weatherResponse.json() can end in: rejecting (<< >>), or a body
\* (<<body>>).
Bodies(fn) ==
    {Null} \cup {Some(b) : b \in IF fn = "forecast" THEN ForecastBodies ELSE WeatherBodies}

\* A handler that answers an upstream failure with the generic message.
UpstreamFailed_generic(rec, status) == Respond(rec, ErrorResponse(<<"Unknown error">>))

\* A handler that calls upstream again after a status that is not ok.
UpstreamFailed_retry(rec, status) ==
    [rec EXCEPT !.pc = "fetch", !.calls = Append(@, "fetch")]

\* if (!weatherResponse.ok) throw new Error(`Weather API error: ${status}`)
UpstreamFailed(rec, status) == Respond(rec, ErrorResponse(WeatherApiError(status)))

\* From the end of await fetch(...) to the Response or to await json().
AfterFetch(rec, out) ==
    LET r0 == [rec EXCEPT !.upstream = IF out.kind = "network" THEN Null ELSE Some(out.status)]
    IN  IF out.kind = "network" THEN Respond(r0, ErrorResponse(NetworkError))
        ELSE IF ~IsOk(out.status) THEN UpstreamFailed(r0, out.status)
        ELSE [r0 EXCEPT !.pc = "json"]

\* An item the forEach reaches that has no weather[0].
MissingWeather(list, nowT, zone) ==
    \E k \in 1..Len(list) :
        KeepItem(list[k], nowT, zone) /\ "description" \notin DOMAIN list[k]

\* From the end of await json() to the next await or to the Response.  The
\* forecast handler reads the clock at t for the filter (line 113) and again
\* at t2 >= t for forecastData.fetched_at (line 152).
AfterJson(rec, fn, json, zone, t, t2) ==
    IF json = Null THEN Respond(rec, ErrorResponse(JsonError))
    ELSE IF fn = "forecast"
    THEN IF json[1].list = Null THEN Respond(rec, ErrorResponse(ListError))
         ELSE IF MissingWeather(json[1].list[1], t, zone)
         THEN Respond(rec, ErrorResponse(ItemError))
         ELSE [rec EXCEPT !.pc = "stamp", !.source = "api",
                          !.data = Some(ForecastData(rec.location,
                                                     Forecast(json[1].list[1], t, zone), t2))]
    ELSE LET weatherData == WeatherData(rec.location, json[1], t)
         IN  [rec EXCEPT !.pc = "insert", !.source = "api",
                         !.data = Some(weatherData), !.row = Some(weatherData),
                         !.calls = Append(@, "insert")]

\* An insert argument stamped with the time the row expires at.
AfterStamp_expiry(rec, t) ==
    [rec EXCEPT !.pc = "insert", !.calls = Append(@, "insert"),
                !.row = Some([location |-> rec.location, forecast_data |-> rec.data[1],
                              fetched_at |-> t + SixHours])]

\* The forecast handler's insert argument, with its own new Date().
AfterStamp(rec, t) ==
    [rec EXCEPT !.pc = "insert", !.calls = Append(@, "insert"),
                !.row = Some([location |-> rec.location, forecast_data |-> rec.data[1],
                              fetched_at |-> t])]

\* From the answer of the insert to the Response.
AfterInsert(rec, fn, error) ==
    Respond([rec EXCEPT !.insertError = error],
            SuccessResponse(rec.data[1], rec.source,
                            IF rec.source = "mock" THEN MockMessage
                            ELSE ApiMessage(fn)))

\* A store that keeps one row for each location and overwrites it.
Inserted_upsert(table, row, error) ==
    IF error THEN table
    ELSE IF \E k \in 1..Len(table) : table[k].location = row.location
    THEN [k \in 1..Len(table) |->
            IF table[k].location = row.location THEN row ELSE table[k]]
    ELSE Append(table, row)

\* The table after the store has answered an insert.
Inserted(table, row, error) == IF error THEN table ELSE Append(table, row)

(***************************************************************************)
(* Actions.                                                                *)
(***************************************************************************)
\* The row an earlier invocation for the default location left in each table,
\* half an hour before the clock starts.
PriorTime == StartTime - ThirtyMinutes

PriorWeatherRow ==
    WeatherData(DefaultLocation,
                [temp |-> Some(21250), humidity |-> Some(40000), speed |-> Some(1500),
                 deg |-> Some(90), description |-> Some("cielo claro")],
                PriorTime)

PriorForecastRow ==
    [location |-> DefaultLocation,
     forecast_data |-> ForecastData(DefaultLocation,
                                    Forecast(<<Pool[3], Pool[6]>>, PriorTime, 0), PriorTime),
     fetched_at |-> PriorTime]

\* The two functions are deployed apart and share neither table nor memory:
\* handler is the function the invocations of a behaviour are served by, or
\* NoHandler when the deployed module did not load.
\* Only the forecast function reads the local time zone.  Deno.env.get gives
\* undefined (Null) for a key that is not set.
Unused == aggIn = Null /\ aggOut = Null /\ wxIn = Null /\ wxOut = Null

Init ==
    /\ handler \in Handlers
    /\ now = StartTime
    /\ ticks = 0
    /\ apiKey \in {Null, Some("k")}
    /\ tz \in (IF handler = "forecast" THEN Zones ELSE {0})
    /\ weather_cache = <<PriorWeatherRow>>
    /\ forecast_cache = <<PriorForecastRow>>
    /\ insertedAt = <<PriorTime>>
    /\ inv = [i \in Invs |-> Idle]
    /\ Unused

Tick ==
    /\ ticks < MaxTicks
    /\ \E d \in TickSteps : now' = now + d
    /\ ticks' = ticks + 1
    /\ UNCHANGED <<env, weather_cache, forecast_cache, insertedAt, inv>>

\* Invocations are numbered in the order their requests arrive.
Request(i) ==
    /\ handler # NoHandler
    /\ inv[i].pc = "idle"
    /\ \A j \in 1..(i - 1) : inv[j].pc # "idle"
    /\ \E method \in Methods, param \in LocationParams :
          inv' = [inv EXCEPT ![i] = AfterRequest(@, handler, method, param, now)]
    /\ UNCHANGED <<env, now, ticks, weather_cache, forecast_cache, insertedAt>>

Read(i) ==
    /\ inv[i].pc = "read"
    /\ \E res \in ReadResults(handler, inv[i].location, inv[i].cutoff),
          r \in RandomDraws :
          inv' = [inv EXCEPT ![i] =
                    AfterRead(@, handler, res, Len(Table(handler)), apiKey, r, now)]
    /\ UNCHANGED <<env, now, ticks, weather_cache, forecast_cache, insertedAt>>

\* An upstream call that waits while another invocation for the same location
\* is between its own miss and the end of its insert.
Fetch_singleflight(i) ==
    /\ inv[i].pc = "fetch"
    /\ \A j \in Invs \ {i} :
          ~(inv[j].pc \in {"fetch", "json", "stamp", "insert"}
            /\ inv[j].location = inv[i].location)
    /\ \E out \in Outcomes : inv' = [inv EXCEPT ![i] = AfterFetch(@, out)]
    /\ UNCHANGED <<env, now, ticks, weather_cache, forecast_cache, insertedAt>>

Fetch(i) ==
    /\ inv[i].pc = "fetch"
    /\ \E out \in Outcomes : inv' = [inv EXCEPT ![i] = AfterFetch(@, out)]
    /\ UNCHANGED <<env, now, ticks, weather_cache, forecast_cache, insertedAt>>

\* The time that can pass between two readings of the clock in one stretch of
\* synchronous code: none, or one step of the clock.
Elapsed == {0} \cup (IF handler = "forecast" /\ ticks < MaxTicks THEN TickSteps ELSE {})

\* The answer of json() and the synchronous code after it; in the forecast
\* handler the clock may move on between line 113 and line 152.
Json(i) ==
    /\ inv[i].pc = "json"
    /\ \E json \in Bodies(handler), d \in Elapsed :
          /\ inv' = [inv EXCEPT ![i] = AfterJson(@, handler, json, tz, now, now + d)]
          /\ now' = IF inv'[i].pc = "stamp" THEN now + d ELSE now
          /\ ticks' = IF inv'[i].pc = "stamp" /\ d > 0 THEN ticks + 1 ELSE ticks
    /\ UNCHANGED <<env, weather_cache, forecast_cache, insertedAt>>

Stamp(i) ==
    /\ inv[i].pc = "stamp"
    /\ inv' = [inv EXCEPT ![i] = AfterStamp(@, now)]
    /\ UNCHANGED <<env, now, ticks, weather_cache, forecast_cache, insertedAt>>

Insert(i) ==
    /\ inv[i].pc = "insert"
    /\ \E error \in BOOLEAN :
          /\ inv' = [inv EXCEPT ![i] = AfterInsert(@, handler, error)]
          /\ IF handler = "forecast"
             THEN /\ forecast_cache' = Inserted(forecast_cache, inv[i].row[1], error)
                  /\ UNCHANGED weather_cache
             ELSE /\ weather_cache' = Inserted(weather_cache, inv[i].row[1], error)
                  /\ UNCHANGED forecast_cache
          /\ insertedAt' = IF error THEN insertedAt ELSE Append(insertedAt, now)
    /\ UNCHANGED <<env, now, ticks>>

Next ==
    \/ Tick
    \/ \E i \in Invs : Request(i)
    \/ \E i \in Invs : Read(i)
    \/ \E i \in Invs : Fetch(i)
    \/ \E i \in Invs : Json(i)
    \/ \E i \in Invs : Stamp(i)
    \/ \E i \in Invs : Insert(i)

Spec == Init /\ [][Next]_vars

\* The step invocation i is waiting for: the answer of its cache query, of
\* its upstream call or of its insert, or the code between two awaits.
Step(i) == Read(i) \/ Fetch(i) \/ Json(i) \/ Stamp(i) \/ Insert(i)

\* Every store call and every upstream call returns in the end, and the
\* synchronous code between two awaits runs on.
Fairness == \A i \in Invs : WF_vars(Step(i))

\* The time zone has no part in whether an invocation answers: the fair
\* behaviours are those of a runtime in UTC.
InitLive == Init /\ tz = 0

SpecLive == InitLive /\ [][Next]_vars /\ Fairness

(***************************************************************************)
(* The forecast aggregation on its own: Forecast applied to upstream lists *)
(* drawn from the pool (any samples of it, in ascending or descending      *)
(* order of dt), to lists of up to MaxReadings readings of one day and to  *)
(* lists of TieReadings readings of one day.                               *)
(***************************************************************************)
RECURSIVE Pick(_, _)
\* The samples of s whose index is in idx, in the order of s.
Pick(s, idx) ==
    IF s = << >> THEN << >>
    ELSE LET rest == Pick(SubSeq(s, 1, Len(s) - 1), idx)
         IN  IF Len(s) \in idx THEN Append(rest, s[Len(s)]) ELSE rest

Reverse(s) == [k \in 1..Len(s) |-> s[Len(s) + 1 - k]]

PoolLists ==
    UNION {{Pick(Pool, idx), Reverse(Pick(Pool, idx))} : idx \in SUBSET (1..Len(Pool))}

\* Readings in 1/40 degree: -0.625, -0.125, 0, 0.5, 10, 10.125, 15.25.
TempValues == {-25, -5, 0, 20, 400, 405, 610}

DayLists ==
    UNION {{[k \in 1..n |-> Sample(2, 3 * k, temps[k], "nubes", k)] :
                temps \in [1..n -> TempValues]} : n \in 1..MaxReadings}

\* Days of TieReadings readings of 0 or +-0.125 or 0.25 degree: their means
\* include 0.05 and 0.15, which are no doubles, and 0.25, which is one.
TieValues == {-5, 0, 5, 10}

TieLists ==
    {[k \in 1..TieReadings |-> Sample(2, 3 * k, temps[k], "nubes", k)] :
        temps \in [1..TieReadings -> TieValues]}

\* 2024-01-11T02:00Z, 12:00Z and 23:00Z.
AggTimes == {26 * MsPerHour, 36 * MsPerHour, 47 * MsPerHour}

InitAgg ==
    /\ aggIn \in {Some([list |-> l, now |-> t, zone |-> z]) :
                     l \in PoolLists \cup DayLists \cup TieLists, t \in AggTimes, z \in Zones}
    /\ aggOut = Null
    /\ handler = "forecast"
    /\ now = StartTime
    /\ ticks = 0
    /\ apiKey = Some("k")
    /\ tz = 0
    /\ weather_cache = << >>
    /\ forecast_cache = << >>
    /\ insertedAt = << >>
    /\ inv = [i \in Invs |-> Idle]
    /\ wxIn = Null
    /\ wxOut = Null

Aggregate ==
    /\ aggIn # Null
    /\ aggOut = Null
    /\ aggOut' = Some(Forecast(aggIn[1].list, aggIn[1].now, aggIn[1].zone))
    /\ UNCHANGED <<handler, now, ticks, apiKey, tz, weather_cache, forecast_cache,
                   insertedAt, inv, aggIn, wxIn, wxOut>>

NextAgg == Aggregate

SpecAgg == InitAgg /\ [][NextAgg]_vars

(***************************************************************************)
(* The normalisation of the current-weather answer on its own: WeatherData *)
(* applied to upstream bodies in which each field is missing, zero or      *)
(* empty, or set.                                                          *)
(***************************************************************************)
\* main.temp in thousandths of a degree, main.humidity in thousandths of a
\* percent, wind.speed in thousandths of m/s, wind.deg in degrees.
TempFields == {Null, Some(0), Some(15500), Some(-2000)}
HumidityFields == {Null, Some(0), Some(65000)}
SpeedFields == {Null, Some(0), Some(3600)}
DegFields == {Null} \cup {Some(d) : d \in {0, 22, 23, 45, 90, 180, 270, 337, 338, 360}}
DescriptionFields == {Null, Some(""), Some("nubes")}

UpstreamBodies ==
    [temp : TempFields, humidity : HumidityFields, speed : SpeedFields,
     deg : DegFields, description : DescriptionFields]

InitWeather ==
    /\ wxIn \in {Some([location |-> l, json |-> b, now |-> StartTime]) :
                    l \in {DefaultLocation}, b \in UpstreamBodies}
    /\ wxOut = Null
    /\ handler = "weather"
    /\ now = StartTime
    /\ ticks = 0
    /\ apiKey = Some("k")
    /\ tz = 0
    /\ weather_cache = << >>
    /\ forecast_cache = << >>
    /\ insertedAt = << >>
    /\ inv = [i \in Invs |-> Idle]
    /\ aggIn = Null
    /\ aggOut = Null

Normalize ==
    /\ wxIn # Null
    /\ wxOut = Null
    /\ wxOut' = Some(WeatherData(wxIn[1].location, wxIn[1].json, wxIn[1].now))
    /\ UNCHANGED <<handler, now, ticks, apiKey, tz, weather_cache, forecast_cache,
                   insertedAt, inv, aggIn, aggOut, wxIn>>

NextWeather == Normalize

SpecWeather == InitWeather /\ [][NextWeather]_vars

(***************************************************************************)
(* Properties.                                                             *)
(***************************************************************************)
Done(i) == inv[i].pc = "done"
Status(i) == inv[i].response[1].status
Headers(i) == inv[i].response[1].headers
Body(i) == inv[i].response[1].body[1]
Issued(i, call) == \E k \in 1..Len(inv[i].calls) : inv[i].calls[k] = call

\* A non-OPTIONS invocation that has returned its Response.
Answered(i) == Done(i) /\ inv[i].method # "OPTIONS"

\* The two envelopes: { data, source, message } with status 200 and
\* { error, details } with status 500.
HasFields(i, fields) ==
    inv[i].response[1].body # Null /\ DOMAIN Body(i) = fields

Success(i) == Status(i) = 200 /\ HasFields(i, {"data", "source", "message"})
Failure(i) == Status(i) = 500 /\ HasFields(i, {"error", "details"})
SuccessFrom(i, source) == Success(i) /\ Body(i).source = source

\* The rows the table held when invocation i's query was answered that are for
\* its location and not older than its cutoff, and the payloads of the most
\* recent of them.
FreshAtRead(i) ==
    {k \in 1..inv[i].snap :
        /\ Table(handler)[k].location = inv[i].location
        /\ Table(handler)[k].fetched_at >= inv[i].cutoff}

NewestPayloads(i) ==
    {IF handler = "forecast" THEN forecast_cache[k].forecast_data ELSE weather_cache[k] :
        k \in {k \in FreshAtRead(i) :
                 \A j \in FreshAtRead(i) :
                    Table(handler)[j].fetched_at <= Table(handler)[k].fetched_at}}

ServedFromCache(i) ==
    /\ SuccessFrom(i, "cache")
    /\ Body(i).data \in NewestPayloads(i)
    /\ ~Issued(i, "fetch")
    /\ ~Issued(i, "insert")

\* C1 as stated: whenever the table holds a row for the location that is not
\* older than the cutoff when the query is answered, the invocation answers 200
\* with source "cache" and the payload of the most recent such row, and issues
\* neither an upstream call nor an insert.
C1_AsStated ==
    \A i \in Invs : Answered(i) /\ FreshAtRead(i) # {} => ServedFromCache(i)

\* C1 amended: the same, provided the cache query did not end in a store error.
C1_FreshRowServed ==
    \A i \in Invs :
        Answered(i) /\ FreshAtRead(i) # {} /\ ~inv[i].cacheError => ServedFromCache(i)

\* A cache answer served from a row whose fetched_at is exactly the cutoff,
\* with an older fresh row beside it.
C1_Witness ==
    \E i \in Invs :
        /\ Answered(i) /\ ~inv[i].cacheError /\ SuccessFrom(i, "cache")
        /\ Cardinality(FreshAtRead(i)) > 1
        /\ \E k \in FreshAtRead(i) : Table(handler)[k].fetched_at = inv[i].cutoff

\* C2: a non-success upstream status s ends the invocation with status 500 and
\* the error "Weather API error: s", and no insert is issued.
C2_UpstreamStatus500 ==
    \A i \in Invs :
        Answered(i) /\ inv[i].upstream # Null /\ inv[i].upstream[1] \notin 200..299
        => /\ Failure(i)
           /\ Body(i).error = <<"Weather API error: ", inv[i].upstream[1]>>
           /\ inv[i].calls = <<"read", "fetch", "respond">>
           /\ inv[i].row = Null

\* An upstream 404 answered after a cache miss with the key set.
C2_Witness ==
    \E i \in Invs :
        /\ Answered(i) /\ inv[i].upstream = Some(404) /\ ~KeyMissing(apiKey)
        /\ inv[i].cachedData = Null /\ Failure(i)

(***************************************************************************)
(* The forecast aggregation (checked under SpecAgg).                       *)
(***************************************************************************)
\* C3 as stated: the forecast list has at most 5 entries and none of them is
\* dated with the calendar date (UTC, as the group key) of the moment the
\* aggregation runs.
C3_AsStated ==
    aggOut # Null =>
        /\ Len(aggOut[1]) <= 5
        /\ \A k \in 1..Len(aggOut[1]) : aggOut[1][k].date # IsoDate(aggIn[1].now)

\* The readings behind entry k of the output: the temperatures of the samples
\* of that date that the filter kept.
Readings(k) ==
    LET kept == SelectSeq(aggIn[1].list,
                          LAMBDA item : /\ DateKey(item) = aggOut[1][k].date
                                        /\ KeepItem(item, aggIn[1].now, aggIn[1].zone))
    IN  [j \in 1..Len(kept) |-> kept[j].temp]

Abs(x) == IF x < 0 THEN -x ELSE x

\* C4 as stated: temperature_max >= temperature_avg >= temperature_min in every
\* DayForecast.
C4_AsStated ==
    aggOut # Null =>
        \A k \in 1..Len(aggOut[1]) :
            /\ aggOut[1][k].temperature_max >= aggOut[1][k].temperature_avg
            /\ aggOut[1][k].temperature_avg >= aggOut[1][k].temperature_min

\* C4 amended: max and min are the exact extremes of the day's readings and
\* temperature_avg is their mean rounded to one decimal, so it lies within 0.05
\* degree (2 units) of [min, max]; max >= avg >= min holds when every reading
\* of the day has at most one decimal (is a multiple of 4 units).
C4_AvgWithinRounding ==
    aggOut # Null =>
        \A k \in 1..Len(aggOut[1]) :
            LET day == aggOut[1][k]
                R == Readings(k)
                n == Len(R)
            IN  /\ n >= 1
                /\ \E j \in 1..n : R[j] = day.temperature_max
                /\ \A j \in 1..n : R[j] <= day.temperature_max
                /\ \E j \in 1..n : R[j] = day.temperature_min
                /\ \A j \in 1..n : R[j] >= day.temperature_min
                /\ day.temperature_avg % 4 = 0
                /\ Abs(n * day.temperature_avg - SeqSum(R)) <= 2 * n
                /\ day.temperature_max + 2 >= day.temperature_avg
                /\ day.temperature_avg >= day.temperature_min - 2
                /\ (\A j \in 1..n : R[j] % 4 = 0)
                      => /\ day.temperature_max >= day.temperature_avg
                         /\ day.temperature_avg >= day.temperature_min

\* A day of several readings with more than one decimal whose average is
\* strictly between its extremes.
C4_Witness ==
    /\ aggOut # Null
    /\ \E k \in 1..Len(aggOut[1]) :
          /\ Len(Readings(k)) >= 2
          /\ \E j \in 1..Len(Readings(k)) : Readings(k)[j] % 4 # 0
          /\ aggOut[1][k].temperature_max > aggOut[1][k].temperature_avg
          /\ aggOut[1][k].temperature_avg > aggOut[1][k].temperature_min

(***************************************************************************)
(* The handlers, continued (checked under Spec).                           *)
(***************************************************************************)
Missed(i) == inv[i].cachedData = Null

\* C5: the current-weather handler without a provider key, after a miss,
\* answers 200 with source "mock" and a payload within the synthetic ranges,
\* issues one insert of that same payload into weather_cache (the row is there
\* once the store has accepted it) and no upstream call.
C5_MockFallback ==
    \A i \in Invs :
        handler = "weather" /\ Answered(i) /\ Missed(i) /\ (apiKey = Null \/ apiKey = Some(""))
        => /\ SuccessFrom(i, "mock")
           /\ LET d == Body(i).data
              IN  /\ d.location = inv[i].location
                  /\ d.temperature # Null /\ d.temperature[1] \in (18 * 1000)..(28 * 1000)
                  /\ d.humidity # Null /\ d.humidity[1] \in (50 * 1000)..(80 * 1000)
                  /\ d.wind_speed # Null /\ d.wind_speed[1] \in (5 * 1000)..(20 * 1000)
                  /\ d.wind_direction # Null
                  /\ d.wind_direction[1] \in {"N", "NE", "E", "SE", "S", "SW", "W", "NW"}
                  /\ d.weather_description # Null
                  /\ d.weather_description[1] \in
                        {"Despejado", "Parcialmente nublado", "Nublado", "Viento"}
                  /\ inv[i].row = Some(d)
                  /\ ~inv[i].insertError => \E k \in 1..Len(weather_cache) : weather_cache[k] = d
           /\ inv[i].calls = <<"read", "insert", "respond">>

\* A mock answer for a location with no fresh row, its payload stored.
C5_Witness ==
    \E i \in Invs :
        /\ handler = "weather" /\ Answered(i) /\ apiKey = Null
        /\ FreshAtRead(i) = {} /\ ~inv[i].cacheError /\ ~inv[i].insertError
        /\ SuccessFrom(i, "mock")
        /\ Body(i).data.temperature[1] > 18 * 1000
        /\ \E k \in 1..Len(weather_cache) : weather_cache[k] = Body(i).data

\* C6: the forecast handler without a provider key, after a miss, ends with
\* the 500 envelope, with no upstream call and no insert; and the forecast
\* handler never answers with source "mock".
C6_ForecastNeedsKey ==
    \A i \in Invs :
        handler = "forecast" /\ Answered(i)
        => /\ Missed(i) /\ (apiKey = Null \/ apiKey = Some(""))
              => /\ Failure(i)
                 /\ inv[i].calls = <<"read", "respond">>
                 /\ inv[i].row = Null
           /\ ~SuccessFrom(i, "mock")

\* The forecast handler failing for want of the key, no fresh row being there.
C6_Witness ==
    \E i \in Invs :
        /\ handler = "forecast" /\ Answered(i) /\ apiKey = Null
        /\ FreshAtRead(i) = {} /\ ~inv[i].cacheError
        /\ Failure(i) /\ Body(i).error = KeyMissingError

\* C7: an insert that fails leaves the answer as it would have been: 200, the
\* source "api" or "mock", and the data obtained before the insert.
C7_InsertFailureIgnored ==
    \A i \in Invs :
        Done(i) /\ inv[i].insertError
        => /\ Success(i)
           /\ Body(i).source \in {"api", "mock"}
           /\ Body(i).source = inv[i].source
           /\ Body(i).data = inv[i].data[1]

\* A fresh answer whose insert failed.
C7_Witness ==
    \E i \in Invs :
        /\ Done(i) /\ inv[i].insertError /\ Success(i)
        /\ Len(Table(handler)) = 1

\* The next call of an invocation that missed the cache: the upstream call
\* with a key; without one, the mock insert (current weather) or the error
\* answer (forecast).
MissPath(i) ==
    /\ Len(inv[i].calls) >= 2
    /\ inv[i].calls[1] = "read"
    /\ inv[i].calls[2] = IF ~KeyMissing(apiKey) THEN "fetch"
                         ELSE IF handler = "forecast" THEN "respond" ELSE "insert"

\* The errors of the fetch path: the key error, and what the upstream call ends in.
FetchPathError(i) ==
    \/ /\ handler = "forecast" /\ KeyMissing(apiKey)
       /\ Body(i).error = KeyMissingError
    \/ /\ Issued(i, "fetch") /\ ~Issued(i, "insert")
       /\ \/ Body(i).error = NetworkError
          \/ Body(i).error = JsonError
          \/ handler = "forecast" /\ Body(i).error \in {ListError, ItemError}
          \/ inv[i].upstream # Null /\ Body(i).error = WeatherApiError(inv[i].upstream[1])

\* C8: a cache query that ends in a store error is followed by what follows a
\* miss, is never answered from the cache, and a 500 answer after it carries an
\* error of the fetch path, not the store's.
C8_StoreErrorIsMiss ==
    \A i \in Invs :
        inv[i].pc \notin {"idle", "read"} /\ inv[i].method # "OPTIONS"
        => /\ (inv[i].cacheError \/ Missed(i)) => MissPath(i)
           /\ inv[i].cacheError /\ Done(i)
              => /\ Success(i) \/ Failure(i)
                 /\ ~SuccessFrom(i, "cache")
                 /\ Failure(i) => FetchPathError(i)

\* A store error on the query while a fresh row was in the table, answered
\* with fresh data.
C8_Witness ==
    \E i \in Invs :
        /\ Answered(i) /\ inv[i].cacheError /\ FreshAtRead(i) # {}
        /\ Success(i) /\ Body(i).source \in {"api", "mock"}

HasCors(i) ==
    \A h \in DOMAIN corsHeaders :
        h \in DOMAIN Headers(i) /\ Headers(i)[h] = corsHeaders[h]

\* C9: an OPTIONS request is answered at once with no body, status 200 and
\* the CORS headers, with no cache query, upstream call or insert.
C9_Preflight ==
    \A i \in Invs :
        inv[i].pc # "idle" /\ inv[i].method = "OPTIONS"
        => /\ Done(i)
           /\ inv[i].response[1].body = Null
           /\ Status(i) = 200
           /\ HasCors(i)
           /\ inv[i].calls = <<"respond">>
           /\ inv[i].row = Null /\ inv[i].cachedData = Null /\ inv[i].upstream = Null

\* A preflight answered with no key configured and a row added to the table.
C9_Witness ==
    \E i \in Invs :
        /\ Done(i) /\ inv[i].method = "OPTIONS" /\ apiKey = Null
        /\ Len(Table(handler)) > 1

\* C10: a response to a non-OPTIONS request is status 200 with
\* { data, source, message } and source cache, api or mock, or status 500 with
\* { error, details }; and every response carries the CORS headers.
C10_Envelope ==
    \A i \in Invs :
        inv[i].response # Null
        => /\ HasCors(i)
           /\ inv[i].method # "OPTIONS"
              => /\ Status(i) \in {200, 500}
                 /\ Status(i) = 200 <=> HasFields(i, {"data", "source", "message"})
                 /\ Status(i) = 500 <=> HasFields(i, {"error", "details"})
                 /\ Success(i) => Body(i).source \in {"cache", "api", "mock"}

\* One invocation answered with the success envelope and one with the error envelope.
C10_Witness ==
    \E i, j \in Invs : Answered(i) /\ Answered(j) /\ Success(i) /\ Failure(j)

\* The compass point whose multiple of 45 degrees is nearest to deg.
NearestPoints(deg) ==
    {directions[(k % 8) + 1] : k \in {k \in 0..8 : 2 * Abs(deg - 45 * k) <= 45}}

\* C11 as stated: whenever the upstream answer carries a wind degree, the
\* wind_direction of the snapshot is the compass point nearest to it; 0, 90,
\* 180 and 270 degrees give "N", "E", "S" and "W", and 45 degrees gives "NE".
C11_AsStated ==
    wxOut # Null /\ wxIn[1].json.deg # Null =>
        LET deg == wxIn[1].json.deg[1]
            point == wxOut[1].wind_direction
        IN  /\ point # Null
            /\ point[1] \in NearestPoints(deg)
            /\ deg = 0 => point = Some("N")
            /\ deg = 45 => point = Some("NE")
            /\ deg = 90 => point = Some("E")
            /\ deg = 180 => point = Some("S")
            /\ deg = 270 => point = Some("W")

\* The place of a call in the order cache query, upstream call, insert, Response.
Rank(call) ==
    CASE call = "read" -> 1
      [] call = "fetch" -> 2
      [] call = "insert" -> 3
      [] call = "respond" -> 4

InTable(row) == \E k \in 1..Len(Table(handler)) : Table(handler)[k] = row

\* C12: the calls an invocation has issued are in the order cache query,
\* upstream call, insert, Response, each at most once; an upstream call comes
\* after a cache query, an insert after the upstream call or the mock
\* synthesis that built its payload, and the Response is not sent while the
\* insert is pending: once it is sent the row is in the table unless the store
\* refused it.
C12_CallOrder ==
    \A i \in Invs :
        LET calls == inv[i].calls
        IN  /\ \A k, l \in 1..Len(calls) : k < l => Rank(calls[k]) < Rank(calls[l])
            /\ Issued(i, "fetch") => Issued(i, "read")
            /\ Issued(i, "insert") =>
                  /\ inv[i].data # Null
                  /\ Issued(i, "read")
                  /\ Issued(i, "fetch") \/ inv[i].source = "mock"
            /\ inv[i].response # Null <=> Issued(i, "respond")
            /\ inv[i].pc = "insert" => inv[i].response = Null
            /\ Issued(i, "respond") /\ Issued(i, "insert") /\ ~inv[i].insertError =>
                  InTable(inv[i].row[1])

\* One invocation went through all four calls and its row is in the table,
\* while another had its insert refused.
C12_Witness ==
    \E i, j \in Invs :
        /\ inv[i].calls = <<"read", "fetch", "insert", "respond">>
        /\ InTable(inv[i].row[1])
        /\ Issued(j, "respond") /\ Issued(j, "insert") /\ inv[j].insertError

Rows == 1..Len(Table(handler))
FetchedAt(k) == Table(handler)[k].fetched_at
SameLocation(j, k) == Table(handler)[j].location = Table(handler)[k].location

\* C13 as stated: the fetched_at of every row is the time at which the row was
\* inserted, and the rows of one location have non-decreasing fetched_at in
\* insertion order.
C13_AsStated ==
    \A k \in Rows :
        /\ FetchedAt(k) = insertedAt[k]
        /\ \A j \in 1..(k - 1) : SameLocation(j, k) => FetchedAt(j) <= FetchedAt(k)

\* C13 amended: the fetched_at of a row, inserted or still on its way to the
\* store, is never later than the clock, so never later than the time of its
\* insertion; and of two rows of one location the later inserted has the
\* later or equal fetched_at whenever the earlier was in the table before the
\* fetched_at of the later was taken.
C13_StampedBeforeInsert ==
    /\ \A i \in Invs : inv[i].row # Null => inv[i].row[1].fetched_at <= now
    /\ \A k \in Rows :
          /\ FetchedAt(k) <= insertedAt[k]
          /\ \A j \in 1..(k - 1) :
                SameLocation(j, k) /\ insertedAt[j] <= FetchedAt(k) =>
                    FetchedAt(j) <= FetchedAt(k)

\* Two overlapping invocations for one location have inserted their rows in
\* the opposite order of their fetched_at, the later one after the clock had
\* moved on from its fetched_at.
C13_Witness ==
    \E k \in Rows : \E j \in 1..(k - 1) :
        /\ SameLocation(j, k)
        /\ FetchedAt(j) > FetchedAt(k)
        /\ FetchedAt(k) < insertedAt[k]

\* The freshness window of the deployed function: 6 hours or 30 minutes.
Window == now - Cutoff(handler, now)

\* C14: nothing holds an invocation back because of another one: the step an
\* invocation waits for can be taken whatever the other invocations are doing,
\* and a query answered without error when the table holds no fresh row for
\* the location is followed by an upstream call (the provider key being set)
\* even if another invocation for the location is already on its way.
C14_NoSingleFlight ==
    \A i \in Invs :
        /\ inv[i].pc = "read" => ENABLED Read(i)
        /\ inv[i].pc = "fetch" => ENABLED Fetch(i)
        /\ inv[i].pc = "json" => ENABLED Json(i)
        /\ inv[i].pc = "stamp" => ENABLED Stamp(i)
        /\ inv[i].pc = "insert" => ENABLED Insert(i)
        /\ inv[i].snap > 0 /\ ~inv[i].cacheError /\ FreshAtRead(i) = {} /\ ~KeyMissing(apiKey)
              => Issued(i, "fetch")

\* Two invocations for one location both found no fresh row before either had
\* inserted, both called upstream and both inserted: the table holds their two
\* rows for the location, with fetched_at inside one freshness window.
C14_Witness ==
    \E i, j \in Invs :
        /\ i # j
        /\ inv[i].location = inv[j].location
        /\ \A h \in {i, j} :
              /\ inv[h].calls = <<"read", "fetch", "insert", "respond">>
              /\ inv[h].snap = 1 /\ ~inv[h].cacheError /\ FreshAtRead(h) = {}
              /\ SuccessFrom(h, "api") /\ ~inv[h].insertError
        /\ Len(Table(handler)) = 3
        /\ \A k \in {2, 3} : Table(handler)[k].location = inv[i].location
        /\ Abs(FetchedAt(2) - FetchedAt(3)) < Window
        /\ Abs(insertedAt[2] - insertedAt[3]) < Window

\* The time at which invocation j took its request.
ReqTime(j) == inv[j].cutoff + Window

\* Row k was inserted by invocation i, which answered "api" or "mock", and
\* invocation j for the same location started when the row was in the table
\* and had its query answered without error.
Follows(i, j, k) ==
    /\ i # j
    /\ Answered(i) /\ Answered(j)
    /\ inv[i].location = inv[j].location
    /\ SuccessFrom(i, "api") \/ SuccessFrom(i, "mock")
    /\ ~inv[i].insertError /\ ~inv[i].cacheError /\ ~inv[j].cacheError
    /\ k \in 2..inv[j].snap
    /\ Table(handler)[k] = inv[i].row[1]
    /\ insertedAt[k] <= ReqTime(j)

\* C15 as stated: an invocation that starts after an "api" or "mock"
\* invocation for its location has inserted and answered, and less than a
\* freshness window after that insert, answers from the cache and makes no
\* upstream call.
C15_AsStated ==
    \A i, j \in Invs : \A k \in Rows :
        /\ Follows(i, j, k)
        /\ insertedAt[k] < ReqTime(j)
        /\ ReqTime(j) - insertedAt[k] < Window
        => SuccessFrom(j, "cache") /\ ~Issued(j, "fetch")

\* C15 amended: the same with the window counted from the fetched_at of the
\* inserted row, which the handler takes before the insert.
C15_WithinWindowOfFetchedAt ==
    \A i, j \in Invs : \A k \in Rows :
        Follows(i, j, k) /\ ReqTime(j) - FetchedAt(k) <= Window
        => SuccessFrom(j, "cache") /\ ~Issued(j, "fetch") /\ ~Issued(j, "insert")

\* An invocation that started strictly after the insert of an "api" or "mock"
\* invocation, within the window of the row's fetched_at, and answered from
\* the cache.
C15_Witness ==
    \E i, j \in Invs : \E k \in Rows :
        /\ Follows(i, j, k)
        /\ ReqTime(j) - FetchedAt(k) <= Window
        /\ ReqTime(j) > insertedAt[k]
        /\ FetchedAt(k) < insertedAt[k]
        /\ SuccessFrom(j, "cache")

\* The payload stored in row k, and the rows invocation j may have been
\* served: the most recent fresh rows at its query that hold what it was given.
Payload(k) == CachedPayload(handler, Select(handler, Table(handler)[k]))

ServedRows(j) ==
    {k \in FreshAtRead(j) :
        /\ inv[j].cachedData = Some(Select(handler, Table(handler)[k]))
        /\ \A l \in FreshAtRead(j) : FetchedAt(l) <= FetchedAt(k)}

\* C16 as stated: the data of a "cache" response is, field for field, the data
\* of the "api" or "mock" response of the invocation that inserted the row
\* served, and the fetched_at inside it is the fetched_at of that row, the one
\* the freshness test reads.
C16_AsStated ==
    \A j \in Invs :
        Answered(j) /\ SuccessFrom(j, "cache") =>
            \A k \in ServedRows(j) :
                /\ Body(j).data = Payload(k)
                /\ Body(j).data.location = inv[j].location
                /\ Body(j).data.fetched_at = FetchedAt(k)
                /\ \A i \in Invs :
                      /\ Done(i) /\ Issued(i, "insert") /\ ~inv[i].insertError
                      /\ inv[i].row = Some(Table(handler)[k])
                      => Success(i) /\ Body(i).data = Body(j).data

\* The step of an invocation that changes a table: the end of the insert of
\* invocation i, which appends the row it built for its location to the table
\* of the deployed function.
AppendsRow(i) ==
    /\ inv[i].pc = "insert" /\ inv'[i].pc = "done"
    /\ inv[i].row # Null /\ inv[i].row[1].location = inv[i].location
    /\ \A j \in Invs \ {i} : inv'[j] = inv[j]
    /\ IF handler = "forecast"
       THEN forecast_cache' = Append(forecast_cache, inv[i].row[1])
            /\ weather_cache' = weather_cache
       ELSE weather_cache' = Append(weather_cache, inv[i].row[1])
            /\ forecast_cache' = forecast_cache

\* C17: both tables are append-only.  A step either leaves both tables as they
\* are or is the end of one invocation's insert, which appends one row for the
\* requested location to the table of its own handler and leaves every
\* earlier row and the other table as they are; that invocation is then done,
\* so it inserts at most one row.  An invocation that answered from the
\* cache, with the error envelope or on OPTIONS never issued an insert.
C17_AppendOnly ==
    /\ [][\/ weather_cache' = weather_cache /\ forecast_cache' = forecast_cache
          \/ \E i \in Invs : AppendsRow(i)]_vars
    /\ [](\A i \in Invs :
            Done(i) /\ (inv[i].method = "OPTIONS" \/ Failure(i) \/ SuccessFrom(i, "cache"))
            => ~Issued(i, "insert") /\ inv[i].row = Null)

\* Both invocations have appended a row each, behind the earlier row, which
\* is as it was.
C17_Witness ==
    /\ Len(Table(handler)) = 3
    /\ Table(handler)[1] = IF handler = "forecast" THEN PriorForecastRow ELSE PriorWeatherRow
    /\ \A i \in Invs : Done(i) /\ Issued(i, "insert") /\ ~inv[i].insertError

\* C18 as stated: each of temperature, humidity, wind_speed, wind_direction
\* and weather_description of the snapshot is null exactly when its field is
\* missing from the upstream answer, whatever the other fields are; a field
\* that is there, a numeric 0 included, is carried into the snapshot.
C18_AsStated ==
    wxOut # Null =>
        LET json == wxIn[1].json
            data == wxOut[1]
        IN  /\ data.temperature = json.temp
            /\ data.humidity = json.humidity
            /\ data.wind_speed = json.speed
            /\ data.wind_direction = Null <=> json.deg = Null
            /\ data.weather_description = Null <=> json.description = Null
            /\ json.description # Null /\ json.description[1] # "" =>
                  data.weather_description = json.description

\* The samples the filter keeps, in the order of the upstream list, those of
\* them of one date, and the place at which a date first appears among them.
Kept == SelectSeq(aggIn[1].list, LAMBDA item : KeepItem(item, aggIn[1].now, aggIn[1].zone))
KeptDates == {DateKey(Kept[j]) : j \in 1..Len(Kept)}
Group(date) == SelectSeq(Kept, LAMBDA item : DateKey(item) = date)
FirstAt(date) ==
    CHOOSE j \in 1..Len(Kept) :
        DateKey(Kept[j]) = date /\ \A l \in 1..(j - 1) : DateKey(Kept[l]) # date

DateBefore(a, b) ==
    \/ a[1] < b[1]
    \/ a[1] = b[1] /\ a[2] < b[2]
    \/ a[1] = b[1] /\ a[2] = b[2] /\ a[3] < b[3]

Ascending(list) == \A j \in 1..(Len(list) - 1) : list[j].dt <= list[j + 1].dt

\* C19: the days of the forecast are the dates of the kept samples in the
\* order in which they first appear, the first MaxDays of them; each day has
\* n >= 1 kept samples, its conditions are the description of the sample at
\* index floor(n / 2) of the day in the order met, and its maximum, minimum,
\* mean and wind speed are finite numbers; and when the upstream list is in
\* non-decreasing order of dt the dates of the days are strictly increasing.
C19_GroupsInOrder ==
    aggOut # Null =>
        LET days == aggOut[1]
        IN  /\ Len(days) = IF Cardinality(KeptDates) < MaxDays
                           THEN Cardinality(KeptDates) ELSE MaxDays
            /\ \A k \in 1..Len(days) :
                  /\ days[k].date \in KeptDates
                  /\ Cardinality({d \in KeptDates : FirstAt(d) < FirstAt(days[k].date)}) = k - 1
                  /\ LET group == Group(days[k].date)
                         n == Len(group)
                     IN  /\ n >= 1
                         /\ days[k].conditions = group[(n \div 2) + 1].description
                  /\ Abs(days[k].temperature_max) < Infinity
                  /\ Abs(days[k].temperature_min) < Infinity
                  /\ Abs(days[k].temperature_avg) < Infinity
                  /\ Abs(days[k].wind_speed) < Infinity
            /\ Ascending(aggIn[1].list) =>
                  \A k \in 1..(Len(days) - 1) : DateBefore(days[k].date, days[k + 1].date)

\* A forecast of an ascending list with a day of two samples and a day of three
\* whose descriptions differ, reported with the second of each.
C19_Witness ==
    /\ aggOut # Null
    /\ Ascending(aggIn[1].list)
    /\ Len(aggOut[1]) >= 3
    /\ \E k, l \in 1..Len(aggOut[1]) :
          /\ Len(Group(aggOut[1][k].date)) = 2
          /\ aggOut[1][k].conditions = Group(aggOut[1][k].date)[2].description
          /\ aggOut[1][k].conditions # Group(aggOut[1][k].date)[1].description
          /\ Len(Group(aggOut[1][l].date)) = 3
          /\ aggOut[1][l].conditions = Group(aggOut[1][l].date)[2].description
          /\ DateBefore(aggOut[1][k].date, aggOut[1][l].date)

Times(i, call) == Cardinality({k \in 1..Len(inv[i].calls) : inv[i].calls[k] = call})

\* C20: when every store call and every upstream call returns, an invocation
\* that has taken its request comes to send its Response; it sends exactly
\* one, the preflight answer, the success envelope or, for any failure after
\* the OPTIONS check, the error envelope with status 500; no call is issued a
\* second time; and an invocation that has answered does nothing more.
C20_OneResponse ==
    /\ \A i \in Invs : (inv[i].pc # "idle") ~> Done(i)
    /\ [](\A i \in Invs :
            /\ \A call \in {"read", "fetch", "insert", "respond"} : Times(i, call) <= 1
            /\ Done(i) <=> Times(i, "respond") = 1
            /\ Done(i) <=> inv[i].response # Null
            /\ Done(i) => IF inv[i].method = "OPTIONS" THEN inv[i].response[1] = PreflightResponse
                          ELSE Success(i) \/ Failure(i))
    /\ [][\A i \in Invs : Done(i) => inv'[i] = inv[i]]_vars

\* One invocation was answered with the error envelope after its upstream
\* call failed, the other with the success envelope after its insert.
C20_Witness ==
    \E i, j \in Invs :
        /\ Done(i) /\ Failure(i) /\ inv[i].calls = <<"read", "fetch", "respond">>
        /\ Done(j) /\ Success(j) /\ inv[j].calls = <<"read", "fetch", "insert", "respond">>
====
